---- MODULE Spec2Model ----
(***************************************************************************)
(* A model of pitch_benchmark.py: the threshold calibrator                 *)
(* (optimize_thresholds), the frame-level metric primitives                *)
(* (evaluate_voicing_detection, evaluate_pitch_accuracy), the smoothness   *)
(* analyzer (evaluate_pitch_smoothness), the per-algorithm evaluator       *)
(* (evaluate_pitch_algorithms) and the orchestration of __main__.          *)
(*                                                                         *)
(* Floating-point values are modelled as exact rationals together with the *)
(* two IEEE specials the code can produce (NaN and +inf).  Arrays are      *)
(* sequences; a numpy boolean array is a sequence of BOOLEAN.  A function  *)
(* that raises returns a record whose status names the exception.          *)
(***************************************************************************)
EXTENDS Integers, Sequences, FiniteSets, TLC

VARIABLES
    call,       \* the invocation of a metric primitive under study
    ret,        \* what that invocation returned (or raised)
    dataset,    \* the Dataset collaborator: a sequence of files
    algorithms, \* the list of algorithm classes (by name)
    pc,         \* position of the orchestration
    cal,        \* locals of optimize_thresholds
    ev          \* locals of evaluate_pitch_algorithms

vars == <<call, ret, dataset, algorithms, pc, cal, ev>>

-----------------------------------------------------------------------------
(* Bounds of the model.                                                    *)

\* longest boolean array handed to evaluate_voicing_detection on its own
MaxVoicingLen == 3

\* longest array handed to evaluate_pitch_accuracy on its own
MaxAccuracyLen == 2

\* longest array handed to evaluate_pitch_smoothness on its own
MaxSmoothLen == 5

\* most frames of a file of the dataset, and of an algorithm's output
MaxFrames == 2

\* most files of the dataset
MaxFiles == 2

\* most algorithms on the command line
MaxAlgos == 2

\* most (algorithm, file) pairs of a run: two algorithms on one file, or one
\* algorithm on two files
MaxWork == 2

\* number of candidates taken from the head of the default threshold list
MaxCandidates == 3

\* best_threshold = None
None == -1

-----------------------------------------------------------------------------
(* Numbers: a float is NaN, +inf, or a rational n/d in lowest terms.       *)

Abs(x) == IF x < 0 THEN -x ELSE x

RECURSIVE GCD(_, _)
GCD(a, b) == IF b = 0 THEN a ELSE GCD(b, a % b)

NaN == [k |-> "nan", n |-> 0, d |-> 1]
Inf == [k |-> "inf", n |-> 1, d |-> 1]

Q(n, d) ==
    LET s == IF d < 0 THEN -1 ELSE 1
        g == GCD(Abs(n), Abs(d))
    IN  [k |-> "q", n |-> (s * n) \div g, d |-> (s * d) \div g]

Zero == Q(0, 1)
One  == Q(1, 1)

IsNaN(x) == x.k = "nan"
IsQ(x)   == x.k = "q"

\* the arithmetic below is used on rationals only; the callers decide what a
\* NaN or an infinite operand gives
QAdd(x, y) == Q(x.n * y.d + y.n * x.d, x.d * y.d)
QSub(x, y) == Q(x.n * y.d - y.n * x.d, x.d * y.d)
QMul(x, y) == Q(x.n * y.n, x.d * y.d)
QDiv(x, y) == Q(x.n * y.d, x.d * y.n)
QLess(x, y) == x.n * y.d < y.n * x.d
QLeq(x, y)  == x.n * y.d <= y.n * x.d

RECURSIVE QSum(_)
QSum(s) == IF s = <<>> THEN Zero ELSE QAdd(Head(s), QSum(Tail(s)))

-----------------------------------------------------------------------------
(* numpy helpers.                                                          *)

SeqsOver(S, n) == UNION {[1..m -> S] : m \in 0..n}

BoolSeqs(n) == SeqsOver(BOOLEAN, n)

\* np.sum of a boolean array
RECURSIVE np_sum(_)
np_sum(b) == IF b = <<>> THEN 0 ELSE (IF Head(b) THEN 1 ELSE 0) + np_sum(Tail(b))

\* np.any / np.all of a boolean array
np_any(b) == \E i \in DOMAIN b : b[i]
np_all(b) == \A i \in DOMAIN b : b[i]

\* numpy broadcasting of two 1-D shapes: equal lengths, or one of them 1
Broadcastable(a, b) == Len(a) = Len(b) \/ Len(a) = 1 \/ Len(b) = 1

BroadcastLen(a, b) == IF Len(a) = 1 THEN Len(b) ELSE Len(a)

\* element i of a after broadcasting
At(a, i) == IF Len(a) = 1 THEN a[1] ELSE a[i]

\* a & b, a & ~b, ~a & b on boolean arrays that broadcast
np_and(a, b)    == [i \in 1..BroadcastLen(a, b) |-> At(a, i) /\ At(b, i)]
np_andnot(a, b) == [i \in 1..BroadcastLen(a, b) |-> At(a, i) /\ ~At(b, i)]
np_notand(a, b) == [i \in 1..BroadcastLen(a, b) |-> ~At(a, i) /\ At(b, i)]

Raised(e) == [status |-> e]

-----------------------------------------------------------------------------
(* evaluate_voicing_detection                                              *)

\* a variant without the zero-denominator guards: numpy's 0/0 is NaN
evaluate_voicing_detection_unguarded(pred_voiced, true_voiced) ==
    IF ~Broadcastable(pred_voiced, true_voiced) THEN Raised("ValueError")
    ELSE
    LET true_pos  == np_sum(np_and(pred_voiced, true_voiced))
        false_pos == np_sum(np_andnot(pred_voiced, true_voiced))
        false_neg == np_sum(np_notand(pred_voiced, true_voiced))
        precision == IF true_pos + false_pos > 0
                     THEN Q(true_pos, true_pos + false_pos) ELSE NaN
        recall    == IF true_pos + false_neg > 0
                     THEN Q(true_pos, true_pos + false_neg) ELSE NaN
        f1 == IF IsNaN(precision) \/ IsNaN(recall) THEN NaN
              ELSE IF QAdd(precision, recall) = Zero THEN Zero
              ELSE QDiv(QMul(Q(2, 1), QMul(precision, recall)),
                        QAdd(precision, recall))
    IN  [status |-> "ok", precision |-> precision, recall |-> recall, f1 |-> f1]

evaluate_voicing_detection(pred_voiced, true_voiced) ==
    IF ~Broadcastable(pred_voiced, true_voiced) THEN Raised("ValueError")
    ELSE
    LET true_pos  == np_sum(np_and(pred_voiced, true_voiced))
        false_pos == np_sum(np_andnot(pred_voiced, true_voiced))
        false_neg == np_sum(np_notand(pred_voiced, true_voiced))
        precision == IF true_pos + false_pos > 0
                     THEN Q(true_pos, true_pos + false_pos) ELSE Zero
        recall    == IF true_pos + false_neg > 0
                     THEN Q(true_pos, true_pos + false_neg) ELSE Zero
        f1 == IF QAdd(precision, recall) = Zero THEN Zero
              ELSE QDiv(QMul(Q(2, 1), QMul(precision, recall)),
                        QAdd(precision, recall))
    IN  [status |-> "ok", precision |-> precision, recall |-> recall, f1 |-> f1]

-----------------------------------------------------------------------------
(* evaluate_pitch_accuracy                                                 *)
(*                                                                         *)
(* Pitch values are whole numbers of Hz, never negative.  log2 is modelled *)
(* by a table of 1200*log2(hz), rounded to the cent, for the frequencies   *)
(* the model uses; np.finfo(float).eps is 2^-52, which a float sum absorbs *)
(* unless the true pitch is 0.                                             *)

LogCents(hz) ==
    CASE hz = 110 -> 8138
      [] hz = 113 -> 8184
      [] hz = 214 -> 9290
      [] hz = 220 -> 9338
      [] hz = 440 -> 10538

\* 1200 * log2(true + eps)
LogCentsTrue(hz) == IF hz = 0 THEN -62400 ELSE LogCents(hz)

\* x < y and x > y on floats: false whenever a NaN is involved
NumLess(x, y) ==
    CASE IsNaN(x) \/ IsNaN(y) -> FALSE
      [] x.k = "inf" -> FALSE
      [] y.k = "inf" -> TRUE
      [] OTHER -> QLess(x, y)

NumGreater(x, y) == NumLess(y, x)

\* np.mean of a non-empty array of floats
np_mean(s) ==
    CASE \E i \in DOMAIN s : IsNaN(s[i]) -> NaN
      [] \E i \in DOMAIN s : s[i].k = "inf" -> Inf
      [] OTHER -> QDiv(QSum(s), Q(Len(s), 1))

\* np.mean of a boolean array: the fraction of true entries
np_mean_bool(b) == Q(np_sum(b), Len(b))

\* a[mask] for a boolean mask of the array's length
Masked(a, mask) ==
    LET F[i \in 0..Len(a)] ==
            IF i = 0 THEN <<>>
            ELSE IF mask[i] THEN Append(F[i - 1], a[i]) ELSE F[i - 1]
    IN  F[Len(a)]

\* np.abs(1200 * np.log2(pred / (true + eps))) for one frame
cents_diff(pred, true) ==
    IF pred = 0 THEN Inf
    ELSE Q(Abs(LogCents(pred) - LogCentsTrue(true)), 1)

\* a variant that folds with the maximum instead of the minimum
chroma_diff_unfolded(c) ==
    IF c.k # "q" THEN NaN
    ELSE LET wrapped_cents_diff == c.n % 1200
         IN  Q(IF wrapped_cents_diff > 1200 - wrapped_cents_diff
               THEN wrapped_cents_diff ELSE 1200 - wrapped_cents_diff, 1)

\* np.minimum(c % 1200, 1200 - c % 1200); inf % 1200 is NaN
chroma_diff(c) ==
    IF c.k # "q" THEN NaN
    ELSE LET wrapped_cents_diff == c.n % 1200
         IN  Q(IF wrapped_cents_diff < 1200 - wrapped_cents_diff
               THEN wrapped_cents_diff ELSE 1200 - wrapped_cents_diff, 1)

\* np.abs(pred - true) / (true + eps) > 0.4
relative_error_exceeds(pred, true) ==
    IF true = 0 THEN pred # 0 ELSE 5 * Abs(pred - true) > 2 * true

\* np.sqrt of a rational, kept exact
Sqrt(x) == [k |-> "sqrt", n |-> x.n, d |-> x.d]

NoValidFrames ==
    [status |-> "ok", rmse |-> NaN, cents_error |-> NaN, rpa |-> NaN, rca |-> NaN,
     octave_error_rate |-> NaN, gross_error_rate |-> NaN, valid_frames |-> 0]

\* the metrics of lines 163-200, once the lengths and the mask are accepted
pitch_metrics_of(pitch_pred, pitch_true, valid_mask, epsilon, gross_error_threshold) ==
    LET pred == Masked(pitch_pred, valid_mask)
        true == Masked(pitch_true, valid_mask)
        N == Len(pred)
        cents == [i \in 1..N |-> cents_diff(pred[i], true[i])]
        chroma == [i \in 1..N |-> chroma_diff(cents[i])]
        octave_errors == [i \in 1..N |->
            \/ relative_error_exceeds(pred[i], true[i])
            \/ (NumGreater(cents[i], Q(1100, 1)) /\ NumLess(cents[i], Q(1300, 1)))]
    IN  [status |-> "ok",
         rmse |-> Sqrt(QDiv(QSum([i \in 1..N |-> Q((pred[i] - true[i]) * (pred[i] - true[i]), 1)]),
                            Q(N, 1))),
         cents_error |-> np_mean(cents),
         rpa |-> np_mean_bool([i \in 1..N |-> NumLess(cents[i], epsilon)]),
         rca |-> np_mean_bool([i \in 1..N |-> NumLess(chroma[i], epsilon)]),
         octave_error_rate |-> np_mean_bool(octave_errors),
         gross_error_rate |-> np_mean_bool([i \in 1..N |-> NumGreater(cents[i], gross_error_threshold)]),
         valid_frames |-> np_sum(valid_mask)]

\* a variant that looks at the mask before it compares the lengths
evaluate_pitch_accuracy_mask_first(pitch_pred, pitch_true, valid_mask, epsilon, gross_error_threshold) ==
    IF ~np_any(valid_mask) THEN NoValidFrames
    ELSE IF Len(pitch_pred) # Len(pitch_true) THEN Raised("ValueError")
    ELSE IF Len(valid_mask) # Len(pitch_pred) THEN Raised("IndexError")
    ELSE pitch_metrics_of(pitch_pred, pitch_true, valid_mask, epsilon, gross_error_threshold)

\* a variant that reports an empty selection as zero error
evaluate_pitch_accuracy_zero_error(pitch_pred, pitch_true, valid_mask, epsilon, gross_error_threshold) ==
    IF Len(pitch_pred) # Len(pitch_true) THEN Raised("ValueError")
    ELSE IF ~np_any(valid_mask)
         THEN [NoValidFrames EXCEPT !.rmse = Zero, !.cents_error = Zero,
                                    !.octave_error_rate = Zero, !.gross_error_rate = Zero]
    ELSE IF Len(valid_mask) # Len(pitch_pred) THEN Raised("IndexError")
    ELSE pitch_metrics_of(pitch_pred, pitch_true, valid_mask, epsilon, gross_error_threshold)

evaluate_pitch_accuracy(pitch_pred, pitch_true, valid_mask, epsilon, gross_error_threshold) ==
    IF Len(pitch_pred) # Len(pitch_true) THEN Raised("ValueError")
    ELSE IF ~np_any(valid_mask) THEN NoValidFrames
    \* pitch_pred[valid_mask]: a boolean index must have the array's length
    ELSE IF Len(valid_mask) # Len(pitch_pred) THEN Raised("IndexError")
    ELSE pitch_metrics_of(pitch_pred, pitch_true, valid_mask, epsilon, gross_error_threshold)

\* the defaults of the signature
DefaultEpsilon == Q(50, 1)
DefaultGrossErrorThreshold == Q(200, 1)

-----------------------------------------------------------------------------
(* evaluate_pitch_smoothness                                               *)

RECURSIVE ISqrtIn(_, _, _)
ISqrtIn(n, lo, hi) ==
    IF lo >= hi THEN lo
    ELSE LET mid == (lo + hi + 1) \div 2
         IN  IF mid * mid <= n THEN ISqrtIn(n, mid, hi) ELSE ISqrtIn(n, lo, mid - 1)

ISqrt(n) == ISqrtIn(n, 0, IF n < 46340 THEN n ELSE 46340)

IsSquare(n) == ISqrt(n) * ISqrt(n) = n

\* np.std(x) / np.mean(x) for a variance and a positive mean: exact when the
\* quotient is the square of a rational, kept under the root otherwise
StdOverMean(variance, mean) ==
    LET r == QDiv(variance, QMul(mean, mean))
    IN  IF IsSquare(r.n) /\ IsSquare(r.d) THEN Q(ISqrt(r.n), ISqrt(r.d)) ELSE Sqrt(r)

\* np.where(pred_voicing)[0], then the pairs np.diff(voiced_idx) == 1 keeps:
\* the frames i with i and i+1 both predicted voiced (1-based)
consecutive_starts(pred_voicing) ==
    LET F[i \in 0..Len(pred_voicing)] ==
            IF i = 0 THEN <<>>
            ELSE IF i < Len(pred_voicing) /\ pred_voicing[i] /\ pred_voicing[i + 1]
                 THEN Append(F[i - 1], i) ELSE F[i - 1]
    IN  F[Len(pred_voicing)]

\* lines 247-269, given the pitch at both ends of every consecutive pair
relative_smoothness_of(pitch_starts, pitch_ends) ==
    LET valid_pairs_mask == [i \in DOMAIN pitch_starts |-> pitch_starts[i] > 0 /\ pitch_ends[i] > 0]
        filtered_pitch_starts == Masked(pitch_starts, valid_pairs_mask)
        filtered_pitch_ends == Masked(pitch_ends, valid_pairs_mask)
        \* |end - start| / (start + 1e-8), the 1e-8 left out
        rel_changes == [i \in DOMAIN filtered_pitch_starts |->
            Q(Abs(filtered_pitch_ends[i] - filtered_pitch_starts[i]), filtered_pitch_starts[i])]
        mean_chg == QDiv(QSum(rel_changes), Q(Len(rel_changes), 1))
        variance == QDiv(QSum([i \in DOMAIN rel_changes |->
                            QMul(QSub(rel_changes[i], mean_chg), QSub(rel_changes[i], mean_chg))]),
                         Q(Len(rel_changes), 1))
    IN  IF ~np_any(valid_pairs_mask) THEN NaN
        ELSE IF QLess(Zero, mean_chg) THEN StdOverMean(variance, mean_chg)
        ELSE IF variance = Zero THEN Zero ELSE NaN

\* label(true_voicing) and find_objects: the maximal runs of true frames, in
\* order, each as the slice <<start, stop>> (0-based, stop excluded)
label_segments(true_voicing) ==
    LET N == Len(true_voicing)
        \* F[i]: the slices closed within the first i frames
        F[i \in 0..N] ==
            IF i = 0 THEN <<>>
            ELSE IF true_voicing[i] /\ (i = N \/ ~true_voicing[i + 1])
                 THEN LET start == CHOOSE a \in 1..i :
                                /\ \A j \in a..i : true_voicing[j]
                                /\ (a = 1 \/ ~true_voicing[a - 1])
                      IN  Append(F[i - 1], <<start - 1, i>>)
                 ELSE F[i - 1]
    IN  F[N]

\* a[slice]: numpy clips a slice to the array
Sliced(a, slice) ==
    [i \in 1..((IF slice[2] < Len(a) THEN slice[2] ELSE Len(a)) - (IF slice[1] < Len(a) THEN slice[1] ELSE Len(a)))
        |-> a[slice[1] + i]]

\* a variant that also keeps the runs of a single frame
is_relevant_segment_any(segment_length) == segment_length >= 1

\* line 294: only runs of more than one frame are considered
is_relevant_segment(segment_length) == segment_length > 1

\* lines 279-310: the loop over the ground-truth segments
continuity_breaks_of(pred_voicing, true_voicing) ==
    LET gt_segments == label_segments(true_voicing)
        \* <<break_count, total_relevant_segments>> after the first i segments
        L[i \in 0..Len(gt_segments)] ==
            IF i = 0 THEN <<0, 0>>
            ELSE LET actual_slice == gt_segments[i]
                     segment_length == actual_slice[2] - actual_slice[1]
                 IN  IF is_relevant_segment(segment_length)
                     THEN <<L[i - 1][1] + (IF ~np_all(Sliced(pred_voicing, actual_slice)) THEN 1 ELSE 0),
                            L[i - 1][2] + 1>>
                     ELSE L[i - 1]
        break_count == L[Len(gt_segments)][1]
        total_relevant_segments == L[Len(gt_segments)][2]
    IN  IF total_relevant_segments > 0 THEN Q(break_count, total_relevant_segments) ELSE NaN

evaluate_pitch_smoothness(pitch_pred, pred_voicing, true_voicing) ==
    LET starts_consec_idx == consecutive_starts(pred_voicing)
        voiced_count == np_sum(pred_voicing)
    IN  \* pitch_pred[ends_consec_idx] with an index beyond the array
        IF voiced_count >= 2 /\ \E i \in DOMAIN starts_consec_idx : starts_consec_idx[i] + 1 > Len(pitch_pred)
        THEN Raised("IndexError")
        ELSE [status |-> "ok",
              relative_smoothness |->
                  IF voiced_count >= 2
                  THEN relative_smoothness_of(
                          [i \in DOMAIN starts_consec_idx |-> pitch_pred[starts_consec_idx[i]]],
                          [i \in DOMAIN starts_consec_idx |-> pitch_pred[starts_consec_idx[i] + 1]])
                  ELSE NaN,
              continuity_breaks |-> continuity_breaks_of(pred_voicing, true_voicing)]

-----------------------------------------------------------------------------
(* The collaborators: the dataset and the algorithms.                      *)

\* a file of the dataset: dataset[idx] raises for a bad one; a good one has
\* a true pitch of 220 Hz on its voiced frames and 0 Hz elsewhere
BadFile == [bad |-> TRUE, pitch |-> <<>>, periodicity |-> <<>>]

GoodFiles ==
    {[bad |-> FALSE,
      pitch |-> [i \in DOMAIN v |-> IF v[i] THEN 220 ELSE 0],
      periodicity |-> v] : v \in BoolSeqs(MaxFrames) \ {<<>>}}

Files == GoodFiles \cup {BadFile}

Datasets(n) == SeqsOver(Files, n)

\* what algo.extract_pitch(audio, threshold) may do: raise, or return a
\* predicted pitch and a predicted voicing of any length up to MaxFrames,
\* whatever the length of the file.  Voiced frames carry 0, 220 or 440 Hz,
\* unvoiced ones 0 Hz; the pitch array may also come a frame short.
ExtractRaises == [raised |-> TRUE, pitch |-> <<>>, voicing |-> <<>>]

WellFormedOutputs ==
    UNION {{[raised |-> FALSE, pitch |-> p, voicing |-> v] :
                p \in {q \in [DOMAIN v -> {0, 220, 440}] : \A i \in DOMAIN v : ~v[i] => q[i] = 0}} :
           v \in BoolSeqs(MaxFrames)}

ShortPitchOutputs ==
    {[raised |-> FALSE, pitch |-> SubSeq(o.pitch, 1, Len(o.pitch) - 1), voicing |-> o.voicing] :
        o \in {w \in WellFormedOutputs : w.voicing # <<>>}}

ExtractOutcomes == WellFormedOutputs \cup ShortPitchOutputs \cup {ExtractRaises}

\* the same outcomes as optimize_thresholds sees them: it drops the pitch
ExtractVoicingOutcomes == {[raised |-> o.raised, voicing |-> o.voicing] : o \in ExtractOutcomes}

-----------------------------------------------------------------------------
(* optimize_thresholds                                                     *)

\* the default of the signature, in hundredths
DefaultThresholdRange == <<1, 10, 20, 30, 40, 50, 60, 70, 80, 90>>

threshold_range == SubSeq(DefaultThresholdRange, 1, MaxCandidates)

\* an injective sequence: a prefix of a shuffle of the indices
IsPrefixOfShuffle(s, size) ==
    /\ \A i \in DOMAIN s : s[i] \in 1..size
    /\ \A i, j \in DOMAIN s : i # j => s[i] # s[j]

\* lines 36-44: the validation split; the validation fraction and the shuffle
\* are inputs, so any prefix of length max(int(size * fraction), 1) may result
OptStart ==
    /\ pc = "start"
    /\ \E validation_length \in 1..(IF Len(dataset) > 1 THEN Len(dataset) ELSE 1) :
       \E validation_indices \in SeqsOver(1..Len(dataset), Len(dataset)) :
          /\ IsPrefixOfShuffle(validation_indices, Len(dataset))
          /\ Len(validation_indices) = (IF validation_length < Len(dataset)
                                        THEN validation_length ELSE Len(dataset))
          /\ cal' = [stage |-> "next_algo", validation_indices |-> validation_indices,
                     optimal_thresholds |-> <<>>, a |-> 0, t |-> 1, idx |-> 1,
                     f1_scores |-> <<>>, best_f1 |-> Q(-1, 1), best_threshold |-> None,
                     tried |-> <<>>]
    /\ pc' = "optimize"
    /\ UNCHANGED <<call, ret, dataset, algorithms, ev>>

\* lines 46-57: the next algorithm
OptAlgoBegin ==
    /\ pc = "optimize"
    /\ cal.stage = "next_algo"
    /\ cal.a < Len(algorithms)
    /\ cal' = [cal EXCEPT !.stage = "candidates", !.a = @ + 1, !.t = 1, !.idx = 1,
                          !.f1_scores = <<>>, !.best_f1 = Q(-1, 1), !.best_threshold = None,
                          !.tried = <<>>]
    /\ UNCHANGED <<call, ret, dataset, algorithms, pc, ev>>

\* lines 63-77: one validation file under the current candidate
OptFile ==
    /\ pc = "optimize"
    /\ cal.stage = "candidates"
    /\ cal.t <= Len(threshold_range)
    /\ cal.idx <= Len(cal.validation_indices)
    /\ LET sample == dataset[cal.validation_indices[cal.idx]]
       IN  \E out \in ExtractVoicingOutcomes :
             LET metrics == evaluate_voicing_detection(out.voicing, sample.periodicity)
                 failed == sample.bad \/ out.raised \/ metrics.status # "ok"
             IN  cal' = [cal EXCEPT !.idx = @ + 1,
                                    !.f1_scores = IF failed THEN @ ELSE Append(@, metrics.f1)]
    /\ UNCHANGED <<call, ret, dataset, algorithms, pc, ev>>

\* a variant that lets a later candidate with an equal mean win
IsBetter_or_equal(mean_f1, best_f1) == QLeq(best_f1, mean_f1)

\* line 83: mean_f1 > best_f1
IsBetter(mean_f1, best_f1) == QLess(best_f1, mean_f1)

\* lines 79-85: the candidate's mean against the best so far
OptCandidateEnd ==
    /\ pc = "optimize"
    /\ cal.stage = "candidates"
    /\ cal.t <= Len(threshold_range)
    /\ cal.idx > Len(cal.validation_indices)
    /\ LET skip == cal.f1_scores = <<>> \/ \E i \in DOMAIN cal.f1_scores : IsNaN(cal.f1_scores[i])
           mean_f1 == np_mean(cal.f1_scores)
           better == ~skip /\ IsBetter(mean_f1, cal.best_f1)
       IN  cal' = [cal EXCEPT !.t = @ + 1, !.idx = 1, !.f1_scores = <<>>,
                              !.best_f1 = IF better THEN mean_f1 ELSE @,
                              !.best_threshold = IF better THEN threshold_range[cal.t] ELSE @,
                              !.tried = Append(@, cal.f1_scores)]
    /\ UNCHANGED <<call, ret, dataset, algorithms, pc, ev>>

\* line 87
OptAlgoEnd ==
    /\ pc = "optimize"
    /\ cal.stage = "candidates"
    /\ cal.t > Len(threshold_range)
    /\ cal' = [cal EXCEPT !.stage = "next_algo",
                          !.optimal_thresholds = (algorithms[cal.a] :> cal.best_threshold) @@ @]
    /\ UNCHANGED <<call, ret, dataset, algorithms, pc, ev>>

\* line 89: the function returns the dictionary; its locals are gone
OptReturn ==
    /\ pc = "optimize"
    /\ cal.stage = "next_algo"
    /\ cal.a = Len(algorithms)
    /\ pc' = "optimized"
    /\ cal' = [stage |-> "returned", optimal_thresholds |-> cal.optimal_thresholds]
    /\ UNCHANGED <<call, ret, dataset, algorithms, ev>>

-----------------------------------------------------------------------------
(* evaluate_pitch_algorithms                                               *)

\* x * (n/d) on floats
NumScale(x, n, d) == IF IsQ(x) THEN QMul(x, Q(n, d)) ELSE x

\* np.exp(-x) for x >= 0.  exp(-NaN) is NaN and exp(-inf) is 0.0; on a
\* rational the value is replaced by 1 / (1 + x + x^2/2), which like exp(-x)
\* is 1 at 0, positive, below 1 and strictly decreasing beyond 0
np_exp_neg(x) ==
    CASE IsNaN(x) -> NaN
      [] x.k = "inf" -> Zero
      [] OTHER -> QDiv(One, QAdd(One, QAdd(x, QMul(Q(1, 2), QMul(x, x)))))

\* np.mean of a list of floats that holds no NaN
mean_of_values(values) ==
    IF \A i \in DOMAIN values : IsQ(values[i])
    THEN QDiv(QSum(values), Q(Len(values), 1))
    ELSE [k |-> "mean", of |-> values]

\* np.concatenate of a non-empty list of arrays
RECURSIVE np_concatenate(_)
np_concatenate(arrays) ==
    IF arrays = <<>> THEN <<>> ELSE Head(arrays) \o np_concatenate(Tail(arrays))

\* a variant that counts a NaN value as 0.0 instead of leaving it out
aggregate_smoothness_nan_as_zero(all_smoothness_metrics) ==
    IF all_smoothness_metrics = <<>> THEN <<>>
    ELSE LET relative == [i \in DOMAIN all_smoothness_metrics |->
                            IF IsNaN(all_smoothness_metrics[i].relative_smoothness) THEN Zero
                            ELSE all_smoothness_metrics[i].relative_smoothness]
             breaks == [i \in DOMAIN all_smoothness_metrics |->
                            IF IsNaN(all_smoothness_metrics[i].continuity_breaks) THEN Zero
                            ELSE all_smoothness_metrics[i].continuity_breaks]
         IN  [relative_smoothness |-> mean_of_values(relative),
              continuity_breaks |-> mean_of_values(breaks)]

\* lines 427-434: per key, the mean of the files' values that are not NaN
aggregate_smoothness(all_smoothness_metrics) ==
    IF all_smoothness_metrics = <<>> THEN <<>>
    ELSE LET relative == SelectSeq([i \in DOMAIN all_smoothness_metrics |->
                                        all_smoothness_metrics[i].relative_smoothness],
                                   LAMBDA x : ~IsNaN(x))
             breaks == SelectSeq([i \in DOMAIN all_smoothness_metrics |->
                                        all_smoothness_metrics[i].continuity_breaks],
                                 LAMBDA x : ~IsNaN(x))
         IN  [relative_smoothness |-> IF relative # <<>> THEN mean_of_values(relative) ELSE NaN,
              continuity_breaks |-> IF breaks # <<>> THEN mean_of_values(breaks) ELSE NaN]

\* lines 437-448
score_components(voicing_metrics, pitch_metrics) ==
    <<pitch_metrics.rpa,
      np_exp_neg(NumScale(pitch_metrics.cents_error, 1, 500)),
      voicing_metrics.recall,
      voicing_metrics.precision,
      np_exp_neg(NumScale(pitch_metrics.octave_error_rate, 10, 1)),
      np_exp_neg(NumScale(pitch_metrics.gross_error_rate, 5, 1))>>

\* a variant that keeps a NaN component
is_valid_component_nan(c) == c # Zero /\ (IsNaN(c) \/ NumGreater(c, Zero))

\* line 451: c and c > 0 and not np.isnan(c)
is_valid_component(c) == c # Zero /\ NumGreater(c, Zero) /\ ~IsNaN(c)

\* 1.0 / c
reciprocal(c) ==
    CASE IsNaN(c) -> NaN
      [] c.k = "inf" -> Zero
      [] OTHER -> QDiv(One, c)

\* lines 451-457
combined_score_of(components) ==
    LET valid_components == SelectSeq(components, is_valid_component)
        reciprocals == [i \in DOMAIN valid_components |-> reciprocal(valid_components[i])]
    IN  IF valid_components = <<>> THEN Zero
        ELSE IF \E i \in DOMAIN reciprocals : IsNaN(reciprocals[i]) THEN NaN
        ELSE QDiv(Q(Len(valid_components), 1), QSum(reciprocals))

\* lines 388-409
NoFilesRecord ==
    [voicing_detection |-> [f1 |-> NaN, precision |-> NaN, recall |-> NaN],
     pitch_accuracy |-> [rmse |-> NaN, cents_error |-> NaN, rpa |-> NaN, rca |-> NaN,
                         octave_error_rate |-> NaN, gross_error_rate |-> NaN],
     smoothness_metrics |-> [relative_smoothness |-> NaN, continuity_breaks |-> NaN],
     combined_score |-> NaN,
     num_files_processed |-> 0,
     total_frames |-> 0]

\* the accumulators of lines 347-350
NoAccumulation ==
    [all_pred_voicing |-> <<>>, all_true_voicing |-> <<>>, all_pred_pitch |-> <<>>,
     all_true_pitch |-> <<>>, all_voiced_mask |-> <<>>, all_smoothness_metrics |-> <<>>]

\* a variant without the skip of lines 364-365
file_step_no_skip(acc, sample, out) ==
    IF sample.bad THEN [acc |-> acc, outcome |-> "raised", extracted |-> FALSE]
    ELSE IF out.raised THEN [acc |-> acc, outcome |-> "raised", extracted |-> TRUE]
    ELSE
    LET true_pitch == sample.pitch
        true_voicing == sample.periodicity
        pred_pitch == out.pitch
        pred_voicing == out.voicing
        acc4 == [acc EXCEPT !.all_pred_voicing = Append(@, pred_voicing),
                            !.all_true_voicing = Append(@, true_voicing),
                            !.all_pred_pitch = Append(@, pred_pitch),
                            !.all_true_pitch = Append(@, true_pitch)]
        acc5 == [acc4 EXCEPT !.all_voiced_mask = Append(@, np_and(pred_voicing, true_voicing))]
        smoothness_metrics == evaluate_pitch_smoothness(pred_pitch, pred_voicing, true_voicing)
    IN  \* line 374: pred_voicing & true_voicing
        IF ~Broadcastable(pred_voicing, true_voicing)
        THEN [acc |-> acc4, outcome |-> "raised", extracted |-> TRUE]
        ELSE IF smoothness_metrics.status # "ok"
        THEN [acc |-> acc5, outcome |-> "raised", extracted |-> TRUE]
        ELSE [acc |-> [acc5 EXCEPT !.all_smoothness_metrics =
                            Append(@, [relative_smoothness |-> smoothness_metrics.relative_smoothness,
                                       continuity_breaks |-> smoothness_metrics.continuity_breaks])],
              outcome |-> "accumulated", extracted |-> TRUE]

\* lines 355-384 on one file: the accumulators afterwards and how the step
\* ended ("raised" in the except clause, "skipped" at the continue of line
\* 365, "accumulated" at the end of the try body)
file_step(acc, sample, out) ==
    IF sample.bad THEN [acc |-> acc, outcome |-> "raised", extracted |-> FALSE]
    ELSE IF ~np_any(sample.periodicity) THEN [acc |-> acc, outcome |-> "skipped", extracted |-> FALSE]
    ELSE IF out.raised THEN [acc |-> acc, outcome |-> "raised", extracted |-> TRUE]
    ELSE
    LET true_pitch == sample.pitch
        true_voicing == sample.periodicity
        pred_pitch == out.pitch
        pred_voicing == out.voicing
        acc4 == [acc EXCEPT !.all_pred_voicing = Append(@, pred_voicing),
                            !.all_true_voicing = Append(@, true_voicing),
                            !.all_pred_pitch = Append(@, pred_pitch),
                            !.all_true_pitch = Append(@, true_pitch)]
        acc5 == [acc4 EXCEPT !.all_voiced_mask = Append(@, np_and(pred_voicing, true_voicing))]
        smoothness_metrics == evaluate_pitch_smoothness(pred_pitch, pred_voicing, true_voicing)
    IN  \* line 374: pred_voicing & true_voicing
        IF ~Broadcastable(pred_voicing, true_voicing)
        THEN [acc |-> acc4, outcome |-> "raised", extracted |-> TRUE]
        ELSE IF smoothness_metrics.status # "ok"
        THEN [acc |-> acc5, outcome |-> "raised", extracted |-> TRUE]
        ELSE [acc |-> [acc5 EXCEPT !.all_smoothness_metrics =
                            Append(@, [relative_smoothness |-> smoothness_metrics.relative_smoothness,
                                       continuity_breaks |-> smoothness_metrics.continuity_breaks])],
              outcome |-> "accumulated", extracted |-> TRUE]

\* lines 412-466: the result record of one algorithm, or the exception that
\* leaves the function
aggregate(acc) ==
    LET global_pred_voicing == np_concatenate(acc.all_pred_voicing)
        global_true_voicing == np_concatenate(acc.all_true_voicing)
        global_pred_pitch == np_concatenate(acc.all_pred_pitch)
        global_true_pitch == np_concatenate(acc.all_true_pitch)
        global_voiced_mask == np_concatenate(acc.all_voiced_mask)
        voicing_metrics == evaluate_voicing_detection(global_pred_voicing, global_true_voicing)
        pitch_metrics == evaluate_pitch_accuracy(global_pred_pitch, global_true_pitch,
                             global_voiced_mask, DefaultEpsilon, DefaultGrossErrorThreshold)
    IN  \* line 417: np.concatenate of an empty list raises
        IF acc.all_voiced_mask = <<>> THEN Raised("ValueError")
        ELSE IF voicing_metrics.status # "ok" THEN Raised(voicing_metrics.status)
        ELSE IF pitch_metrics.status # "ok" THEN Raised(pitch_metrics.status)
        ELSE [status |-> "ok",
              record |->
                [voicing_detection |-> [f1 |-> voicing_metrics.f1,
                                        precision |-> voicing_metrics.precision,
                                        recall |-> voicing_metrics.recall],
                 pitch_accuracy |-> [rmse |-> pitch_metrics.rmse,
                                     cents_error |-> pitch_metrics.cents_error,
                                     rpa |-> pitch_metrics.rpa,
                                     rca |-> pitch_metrics.rca,
                                     octave_error_rate |-> pitch_metrics.octave_error_rate,
                                     gross_error_rate |-> pitch_metrics.gross_error_rate,
                                     valid_frames |-> pitch_metrics.valid_frames],
                 smoothness_metrics |-> aggregate_smoothness(acc.all_smoothness_metrics),
                 combined_score |-> combined_score_of(score_components(voicing_metrics, pitch_metrics)),
                 num_files_processed |-> Len(acc.all_pred_voicing),
                 total_frames |-> Len(global_pred_voicing)]]

\* what the run remembers of a file on which extract_pitch was not called
NotExtracted == [raised |-> FALSE, pitch |-> <<>>, voicing |-> <<>>, called |-> FALSE]

\* line 336, on entry: optimized is the list of (algorithm, threshold) pairs
EvalEntry(optimized) ==
    [stage |-> "next_algo", optimized |-> optimized, a |-> 0, idx |-> 1,
     acc |-> NoAccumulation, results |-> <<>>,
     outcome |-> "none", completed |-> 0, extract_thresholds |-> {}, outs |-> <<>>]

\* lines 337-350: the next algorithm, its accumulators empty
EvalAlgoBegin ==
    /\ pc = "evaluate"
    /\ ev.stage = "next_algo"
    /\ ev.a < Len(ev.optimized)
    /\ ev' = [ev EXCEPT !.stage = "files", !.a = @ + 1, !.idx = 1, !.acc = NoAccumulation,
                        !.outcome = "none", !.completed = 0, !.outs = <<>>]
    /\ UNCHANGED <<call, ret, dataset, algorithms, pc, cal>>

\* lines 352-384: one file
EvalFile ==
    /\ pc = "evaluate"
    /\ ev.stage = "files"
    /\ ev.idx <= Len(dataset)
    /\ \E out \in ExtractOutcomes :
          LET step == file_step(ev.acc, dataset[ev.idx], out)
          IN  ev' = [ev EXCEPT !.idx = @ + 1,
                               !.acc = step.acc,
                               !.outcome = step.outcome,
                               !.completed = IF step.outcome = "accumulated" THEN @ + 1 ELSE @,
                               !.extract_thresholds =
                                    IF step.extracted THEN @ \cup {ev.optimized[ev.a][2]} ELSE @,
                               !.outs = Append(@, IF step.extracted THEN out ELSE NotExtracted)]
    /\ UNCHANGED <<call, ret, dataset, algorithms, pc, cal>>

\* lines 386-466: the algorithm's result record; an exception here is caught
\* nowhere and ends the run
EvalAggregate ==
    /\ pc = "evaluate"
    /\ ev.stage = "files"
    /\ ev.idx > Len(dataset)
    /\ LET algo_name == ev.optimized[ev.a][1]
           result == aggregate(ev.acc)
       IN  IF ev.acc.all_pred_voicing = <<>>
           THEN /\ ev' = [ev EXCEPT !.stage = "next_algo",
                                    !.results = (algo_name :> NoFilesRecord) @@ @]
                /\ pc' = pc
           ELSE IF result.status = "ok"
           THEN /\ ev' = [ev EXCEPT !.stage = "next_algo",
                                    !.results = (algo_name :> result.record) @@ @]
                /\ pc' = pc
           ELSE /\ ev' = [ev EXCEPT !.stage = result.status]
                /\ pc' = "aborted"
    /\ UNCHANGED <<call, ret, dataset, algorithms, cal>>

\* line 468
EvalReturn ==
    /\ pc = "evaluate"
    /\ ev.stage = "next_algo"
    /\ ev.a = Len(ev.optimized)
    /\ pc' = "done"
    /\ UNCHANGED <<call, ret, dataset, algorithms, cal, ev>>

-----------------------------------------------------------------------------
(* __main__                                                                *)

\* lines 693-717: the thresholds go to the evaluator as they are
MainEvaluate ==
    /\ pc = "optimized"
    /\ pc' = "evaluate"
    /\ ev' = EvalEntry([i \in DOMAIN algorithms |->
                            <<algorithms[i], cal.optimal_thresholds[algorithms[i]]>>])
    /\ UNCHANGED <<call, ret, dataset, algorithms, cal>>

-----------------------------------------------------------------------------
(* State before any function runs.                                         *)

NoCall == [fn |-> "none"]
Pending == [status |-> "pending"]

IdleProgram ==
    /\ dataset = <<>>
    /\ algorithms = <<>>
    /\ pc = "idle"
    /\ cal = [stage |-> "idle"]
    /\ ev = [stage |-> "idle"]

-----------------------------------------------------------------------------
(* evaluate_voicing_detection on its own, on every pair of boolean arrays  *)
(* up to MaxVoicingLen.                                                    *)

VoicingInit ==
    /\ call \in {[fn |-> "evaluate_voicing_detection", pred_voiced |-> p, true_voiced |-> t] :
                    p \in BoolSeqs(MaxVoicingLen), t \in BoolSeqs(MaxVoicingLen)}
    /\ ret = Pending
    /\ IdleProgram

CallVoicing ==
    /\ call.fn = "evaluate_voicing_detection"
    /\ ret = Pending
    /\ ret' = evaluate_voicing_detection(call.pred_voiced, call.true_voiced)
    /\ UNCHANGED <<call, dataset, algorithms, pc, cal, ev>>

SpecVoicing == VoicingInit /\ [][CallVoicing]_vars

-----------------------------------------------------------------------------
(* C5: for equal-length boolean sequences (the empty, all-false and        *)
(* all-true ones included) evaluate_voicing_detection returns precision,   *)
(* recall and F1 that are defined and lie in [0,1]; precision is 0 when    *)
(* TP+FP = 0, recall is 0 when TP+FN = 0, and F1 = 0 exactly when          *)
(* precision + recall = 0.                                                 *)

InUnit(x) == IsQ(x) /\ x.d > 0 /\ 0 <= x.n /\ x.n <= x.d

VoicingReturned ==
    /\ call.fn = "evaluate_voicing_detection"
    /\ ret # Pending
    /\ Len(call.pred_voiced) = Len(call.true_voiced)

\* the counts, taken straight from the frames
CountTP == Cardinality({i \in DOMAIN call.pred_voiced : call.pred_voiced[i] /\ call.true_voiced[i]})
CountFP == Cardinality({i \in DOMAIN call.pred_voiced : call.pred_voiced[i] /\ ~call.true_voiced[i]})
CountFN == Cardinality({i \in DOMAIN call.pred_voiced : ~call.pred_voiced[i] /\ call.true_voiced[i]})

C5_VoicingInUnitRange ==
    VoicingReturned =>
        /\ ret.status = "ok"
        /\ InUnit(ret.precision) /\ InUnit(ret.recall) /\ InUnit(ret.f1)
        /\ (CountTP + CountFP = 0 => ret.precision = Zero)
        /\ (CountTP + CountFN = 0 => ret.recall = Zero)
        /\ (CountTP + CountFP > 0 => ret.precision.n * (CountTP + CountFP) = CountTP * ret.precision.d)
        /\ (CountTP + CountFN > 0 => ret.recall.n * (CountTP + CountFN) = CountTP * ret.recall.d)
        /\ (ret.f1 = Zero <=> ret.precision.n + ret.recall.n = 0)

C5_Witness ==
    /\ VoicingReturned
    /\ Len(call.pred_voiced) = MaxVoicingLen
    /\ CountTP + CountFP = 0
    /\ CountFN > 0
    /\ ret.status = "ok"
    /\ ret.precision = Zero

-----------------------------------------------------------------------------
(* evaluate_pitch_accuracy on its own: predicted pitch, true pitch and     *)
(* valid mask of every length up to MaxAccuracyLen, each length chosen     *)
(* freely, and a few tolerances.                                           *)

PredPitchValues == {0, 113, 214, 220}
TruePitchValues == {0, 110, 220}
EpsilonValues == {Q(0, 1), Q(50, 1), Q(700, 1)}

AccuracyInit ==
    /\ call \in {[fn |-> "evaluate_pitch_accuracy", pitch_pred |-> p, pitch_true |-> t,
                  valid_mask |-> m, epsilon |-> e] :
                    p \in SeqsOver(PredPitchValues, MaxAccuracyLen),
                    t \in SeqsOver(TruePitchValues, MaxAccuracyLen),
                    m \in BoolSeqs(MaxAccuracyLen),
                    e \in EpsilonValues}
    /\ ret = Pending
    /\ IdleProgram

CallAccuracy ==
    /\ call.fn = "evaluate_pitch_accuracy"
    /\ ret = Pending
    /\ ret' = evaluate_pitch_accuracy(call.pitch_pred, call.pitch_true, call.valid_mask,
                                      call.epsilon, DefaultGrossErrorThreshold)
    /\ UNCHANGED <<call, dataset, algorithms, pc, cal, ev>>

SpecAccuracy == AccuracyInit /\ [][CallAccuracy]_vars

AccuracyReturned == call.fn = "evaluate_pitch_accuracy" /\ ret # Pending

-----------------------------------------------------------------------------
(* C6: evaluate_pitch_accuracy fails with a length-mismatch error whenever *)
(* len(pitch_pred) # len(pitch_true), whatever the valid mask is (all      *)
(* false or empty included); it never returns a metric record then.        *)

C6_LengthMismatchRaises ==
    (AccuracyReturned /\ Len(call.pitch_pred) # Len(call.pitch_true))
        => ret = Raised("ValueError")

C6_Witness ==
    /\ AccuracyReturned
    /\ Len(call.pitch_pred) # Len(call.pitch_true)
    /\ call.valid_mask # <<>>
    /\ ~np_any(call.valid_mask)
    /\ ret.status = "ValueError"

-----------------------------------------------------------------------------
(* C7: for equal-length pitch_pred and pitch_true, a valid mask without a  *)
(* true frame gives NaN for rmse, cents_error, rpa, rca, octave_error_rate *)
(* and gross_error_rate, and valid_frames = 0; when a frame is valid (the  *)
(* mask being a mask of those frames), valid_frames is the number of true  *)
(* entries of the mask.                                                    *)

TrueEntries(mask) == Cardinality({i \in DOMAIN mask : mask[i]})

C7_NoValidFramesIsNaN ==
    (AccuracyReturned /\ Len(call.pitch_pred) = Len(call.pitch_true)) =>
        /\ TrueEntries(call.valid_mask) = 0 =>
              /\ ret.status = "ok"
              /\ IsNaN(ret.rmse) /\ IsNaN(ret.cents_error) /\ IsNaN(ret.rpa)
              /\ IsNaN(ret.rca) /\ IsNaN(ret.octave_error_rate)
              /\ IsNaN(ret.gross_error_rate)
              /\ ret.valid_frames = 0
        /\ (TrueEntries(call.valid_mask) > 0 /\ Len(call.valid_mask) = Len(call.pitch_pred)) =>
              /\ ret.status = "ok"
              /\ ret.valid_frames = TrueEntries(call.valid_mask)
        /\ (TrueEntries(call.valid_mask) > 0 /\ ret.status = "ok") =>
              ret.valid_frames = TrueEntries(call.valid_mask)

C7_Witness ==
    /\ AccuracyReturned
    /\ Len(call.pitch_pred) = MaxAccuracyLen
    /\ Len(call.pitch_true) = MaxAccuracyLen
    /\ Len(call.valid_mask) = MaxAccuracyLen
    /\ TrueEntries(call.valid_mask) = 0
    /\ IsNaN(ret.rpa)
    /\ ret.valid_frames = 0

-----------------------------------------------------------------------------
(* C8: with at least one valid frame and any tolerance epsilon, RCA >= RPA:*)
(* every valid frame whose cents difference is below epsilon has a chroma  *)
(* distance below epsilon.  The chroma distance lies in [0, 600] on every  *)
(* valid frame whose cents difference is finite; a valid frame with a      *)
(* predicted pitch of 0 Hz has an infinite cents difference and a NaN      *)
(* chroma distance.                                                        *)

ValidFrames ==
    {i \in DOMAIN call.valid_mask : call.valid_mask[i]}

FrameCents(i) == cents_diff(call.pitch_pred[i], call.pitch_true[i])

AccuracyScored ==
    /\ AccuracyReturned
    /\ ret.status = "ok"
    /\ ret.valid_frames > 0

InChromaRange(x) == IsQ(x) /\ 0 <= x.n /\ x.n <= 600 * x.d

C8_ChromaNotBelowPitch ==
    AccuracyScored =>
        /\ IsQ(ret.rpa) /\ IsQ(ret.rca) /\ QLeq(ret.rpa, ret.rca)
        /\ \A i \in ValidFrames :
              /\ NumLess(FrameCents(i), call.epsilon)
                    => NumLess(chroma_diff(FrameCents(i)), call.epsilon)
              /\ IsQ(FrameCents(i)) => InChromaRange(chroma_diff(FrameCents(i)))

\* the claim as first stated: the chroma distance of every valid frame is in [0, 600]
C8_ChromaAlwaysInRange ==
    AccuracyScored =>
        \A i \in ValidFrames : InChromaRange(chroma_diff(FrameCents(i)))

\* an octave-like error (1152 cents) that chroma folding forgives
C8_Witness ==
    /\ AccuracyScored
    /\ call.epsilon = DefaultEpsilon
    /\ \E i \in ValidFrames :
          /\ FrameCents(i) = Q(1152, 1)
          /\ chroma_diff(FrameCents(i)) = Q(48, 1)
    /\ QLess(ret.rpa, ret.rca)

-----------------------------------------------------------------------------
(* evaluate_pitch_smoothness on its own: every pair of predicted and true  *)
(* voicing masks up to MaxSmoothLen (lengths chosen freely), and for each  *)
(* a few predicted pitch contours: flat, alternating by an octave, all     *)
(* zero, rising, and one a frame shorter than the voicing mask.            *)

PitchContours(n) ==
    {[i \in 1..n |-> 220],
     [i \in 1..n |-> IF i % 2 = 1 THEN 220 ELSE 440],
     [i \in 1..n |-> 0],
     [i \in 1..n |-> IF i = 1 THEN 110 ELSE IF i = 2 THEN 220 ELSE 440],
     [i \in 1..(IF n > 0 THEN n - 1 ELSE 0) |-> 220]}

SmoothInit ==
    /\ call \in {[fn |-> "evaluate_pitch_smoothness", pitch_pred |-> p, pred_voicing |-> v,
                  true_voicing |-> t] :
                    <<v, p>> \in UNION {{<<w, c>> : c \in PitchContours(Len(w))} : w \in BoolSeqs(MaxSmoothLen)},
                    t \in BoolSeqs(MaxSmoothLen)}
    /\ ret = Pending
    /\ IdleProgram

CallSmoothness ==
    /\ call.fn = "evaluate_pitch_smoothness"
    /\ ret = Pending
    /\ ret' = evaluate_pitch_smoothness(call.pitch_pred, call.pred_voicing, call.true_voicing)
    /\ UNCHANGED <<call, dataset, algorithms, pc, cal, ev>>

SpecSmooth == SmoothInit /\ [][CallSmoothness]_vars

-----------------------------------------------------------------------------
(* C9: continuity_breaks is (number of maximal true-voiced runs longer     *)
(* than one frame that contain a predicted-unvoiced frame) / (number of    *)
(* maximal true-voiced runs longer than one frame), and NaN exactly when   *)
(* there is no such run; true=[F,T,T,T,F], pred=[F,T,F,T,F] gives 1.0 and  *)
(* true=[T,F,T,F,T] gives NaN.  It is a function of the true voicing and   *)
(* of the predicted voicing inside the kept runs alone.                    *)

\* the maximal runs of true frames, as pairs <<first, last>> (1-based)
MaximalRuns(tv) ==
    {r \in (DOMAIN tv) \X (DOMAIN tv) :
        /\ r[1] <= r[2]
        /\ \A i \in r[1]..r[2] : tv[i]
        /\ (r[1] = 1 \/ ~tv[r[1] - 1])
        /\ (r[2] = Len(tv) \/ ~tv[r[2] + 1])}

KeptRuns(tv) == {r \in MaximalRuns(tv) : r[2] > r[1]}

\* the predicted-unvoiced frames inside the kept runs: all that the value may depend on
UnvoicedInKeptRuns(pv, tv) ==
    {i \in DOMAIN pv : ~pv[i] /\ \E r \in KeptRuns(tv) : r[1] <= i /\ i <= r[2]}

BrokenRuns(pv, tv) ==
    {r \in KeptRuns(tv) : \E i \in UnvoicedInKeptRuns(pv, tv) : r[1] <= i /\ i <= r[2]}

ExpectedContinuityBreaks(pv, tv) ==
    IF KeptRuns(tv) = {} THEN NaN
    ELSE Q(Cardinality(BrokenRuns(pv, tv)), Cardinality(KeptRuns(tv)))

SmoothReturned == call.fn = "evaluate_pitch_smoothness" /\ ret # Pending

C9_ContinuityBreaks ==
    SmoothReturned =>
        \* with a pitch array as long as the voicing mask the function returns
        /\ Len(call.pitch_pred) = Len(call.pred_voicing) => ret.status = "ok"
        /\ ret.status = "ok" =>
              /\ ret.continuity_breaks = ExpectedContinuityBreaks(call.pred_voicing, call.true_voicing)
              /\ IsNaN(ret.continuity_breaks) <=> KeptRuns(call.true_voicing) = {}
              /\ (call.true_voicing = <<FALSE, TRUE, TRUE, TRUE, FALSE>>
                    /\ call.pred_voicing = <<FALSE, TRUE, FALSE, TRUE, FALSE>>)
                       => ret.continuity_breaks = One
              /\ call.true_voicing = <<TRUE, FALSE, TRUE, FALSE, TRUE>>
                       => IsNaN(ret.continuity_breaks)

C9_Witness ==
    /\ SmoothReturned
    /\ call.true_voicing = <<FALSE, TRUE, TRUE, TRUE, FALSE>>
    /\ call.pred_voicing = <<FALSE, TRUE, FALSE, TRUE, FALSE>>
    /\ call.pitch_pred = <<220, 440, 220, 440, 220>>
    /\ ret.status = "ok"
    /\ ret.continuity_breaks = One

-----------------------------------------------------------------------------
(* optimize_thresholds on its own, on every dataset of up to MaxFiles      *)
(* files and MaxAlgos algorithms.                                          *)

NoPrimitive ==
    /\ call = NoCall
    /\ ret = Pending

\* the inputs of a run: the algorithms, named 1, 2, ..., and the dataset
RunInputs ==
    /\ algorithms \in {[i \in 1..n |-> i] : n \in 1..MaxAlgos}
    /\ dataset \in Datasets(MaxFiles)
    /\ Len(algorithms) * Len(dataset) <= MaxWork

CalibInit ==
    /\ NoPrimitive
    /\ RunInputs
    /\ pc = "start"
    /\ cal = [stage |-> "idle"]
    /\ ev = [stage |-> "idle"]

CalibNext == OptStart \/ OptAlgoBegin \/ OptFile \/ OptCandidateEnd \/ OptAlgoEnd \/ OptReturn

SpecCalib == CalibInit /\ [][CalibNext]_vars

-----------------------------------------------------------------------------
(* C3: for each algorithm optimize_thresholds returns the candidate whose  *)
(* mean per-file F1 (over the validation files that did not raise for that *)
(* candidate) is greatest among the candidates with at least one score,    *)
(* the earliest such candidate when several share that mean, and None when *)
(* no candidate has a score; the value is a candidate or None.             *)

\* tried[j]: the scores candidate j collected
HasScore(tried, j) == tried[j] # <<>>

MeanOf(scores) == QDiv(QSum(scores), Q(Len(scores), 1))

Greatest(tried) ==
    {j \in DOMAIN tried :
        /\ HasScore(tried, j)
        /\ \A m \in DOMAIN tried : HasScore(tried, m) => QLeq(MeanOf(tried[m]), MeanOf(tried[j]))}

ExpectedThreshold(tried) ==
    IF Greatest(tried) = {} THEN None
    ELSE threshold_range[CHOOSE j \in Greatest(tried) : \A m \in Greatest(tried) : j <= m]

Candidates == {threshold_range[j] : j \in DOMAIN threshold_range}

AlgorithmStored ==
    /\ pc = "optimize"
    /\ cal.stage = "next_algo"
    /\ cal.a >= 1

C3_BestThresholdSelected ==
    /\ AlgorithmStored =>
          /\ Len(cal.tried) = Len(threshold_range)
          /\ cal.optimal_thresholds[algorithms[cal.a]] = ExpectedThreshold(cal.tried)
    /\ pc \in {"optimize", "optimized"} =>
          \A name \in DOMAIN cal.optimal_thresholds :
              cal.optimal_thresholds[name] \in Candidates \cup {None}

\* two candidates tie on the greatest mean, a mean over two files, and the
\* earlier one is returned although it is not the first candidate
C3_Witness ==
    /\ AlgorithmStored
    /\ Len(cal.tried[2]) = 2 /\ Len(cal.tried[3]) = 2
    /\ cal.tried[2] # cal.tried[3]
    /\ Greatest(cal.tried) = {2, 3}
    /\ cal.optimal_thresholds[algorithms[cal.a]] = threshold_range[2]

\* no candidate has a score
C3_WitnessNone ==
    /\ AlgorithmStored
    /\ Len(dataset) > 0
    /\ Greatest(cal.tried) = {}
    /\ cal.optimal_thresholds[algorithms[cal.a]] = None

-----------------------------------------------------------------------------
(* evaluate_pitch_algorithms on its own: every dataset and algorithm list  *)
(* within the bounds, each algorithm with the first candidate threshold.   *)

EvalInit ==
    /\ NoPrimitive
    /\ RunInputs
    /\ pc = "evaluate"
    /\ cal = [stage |-> "idle"]
    /\ ev = EvalEntry([i \in DOMAIN algorithms |-> <<algorithms[i], threshold_range[1]>>])

EvalNext == EvalAlgoBegin \/ EvalFile \/ EvalAggregate \/ EvalReturn

SpecEval == EvalInit /\ [][EvalNext]_vars

-----------------------------------------------------------------------------
(* The whole run of __main__: calibration, then evaluation.                *)

Init ==
    /\ NoPrimitive
    /\ RunInputs
    /\ pc = "start"
    /\ cal = [stage |-> "idle"]
    /\ ev = [stage |-> "idle"]

Next ==
    \/ OptStart \/ OptAlgoBegin \/ OptFile \/ OptCandidateEnd \/ OptAlgoEnd \/ OptReturn
    \/ MainEvaluate
    \/ EvalAlgoBegin \/ EvalFile \/ EvalAggregate \/ EvalReturn

Spec == Init /\ [][Next]_vars

-----------------------------------------------------------------------------
(* C1: a file whose per-file step raises (dataset access, extract_pitch,   *)
(* the pred & true mask, or evaluate_pitch_smoothness) is excluded from    *)
(* the accumulation: none of the five accumulators nor the smoothness list *)
(* gains an entry for it.  Stated with the number of files whose step ran  *)
(* to the end of the try body: every list is that long.                    *)

InFileLoop == pc = "evaluate" /\ ev.stage = "files"

C1_FailedFileExcluded ==
    InFileLoop =>
        /\ Len(ev.acc.all_pred_voicing) = ev.completed
        /\ Len(ev.acc.all_true_voicing) = ev.completed
        /\ Len(ev.acc.all_pred_pitch) = ev.completed
        /\ Len(ev.acc.all_true_pitch) = ev.completed
        /\ Len(ev.acc.all_voiced_mask) = ev.completed
        /\ Len(ev.acc.all_smoothness_metrics) = ev.completed

-----------------------------------------------------------------------------
(* C2: a failure while processing one file never ends the evaluation: for  *)
(* every dataset and every pattern of per-file failures the aggregation    *)
(* step is passed without raising, and a run that returns holds a result   *)
(* record for every algorithm of the input list.                           *)

C2_FileFailureNeverEndsRun ==
    /\ pc # "aborted"
    /\ pc = "done" =>
          DOMAIN ev.results = {ev.optimized[i][1] : i \in DOMAIN ev.optimized}

-----------------------------------------------------------------------------
(* C4: the orchestration never starts evaluate_pitch_algorithms with an    *)
(* (algorithm, threshold) pair whose threshold is None, and extract_pitch  *)
(* is never called with a None threshold.                                  *)

EvaluatorStarted == pc \in {"evaluate", "done", "aborted"}

C4_NoUndefinedThreshold ==
    EvaluatorStarted =>
        /\ \A i \in DOMAIN ev.optimized : ev.optimized[i][2] # None
        /\ None \notin ev.extract_thresholds

-----------------------------------------------------------------------------
(* C10: when at least one file was accumulated, combined_score comes from  *)
(* the six components [RPA, exp(-cents_error/500), recall, precision,      *)
(* exp(-10*octave_error_rate), exp(-5*gross_error_rate)], of which only    *)
(* the defined, finite and strictly positive ones are kept: 0.0 if none is *)
(* kept, otherwise (number kept) / (sum of their reciprocals).  It is      *)
(* never NaN then, lies in [0,1], and is 1.0 when all six are 1.           *)

ComponentsOf(r) ==
    <<r.pitch_accuracy.rpa,
      np_exp_neg(NumScale(r.pitch_accuracy.cents_error, 1, 500)),
      r.voicing_detection.recall,
      r.voicing_detection.precision,
      np_exp_neg(NumScale(r.pitch_accuracy.octave_error_rate, 10, 1)),
      np_exp_neg(NumScale(r.pitch_accuracy.gross_error_rate, 5, 1))>>

Kept(c) == {i \in DOMAIN c : IsQ(c[i]) /\ c[i].n > 0}

RECURSIVE SumOfReciprocals(_, _)
SumOfReciprocals(c, I) ==
    IF I = {} THEN Zero
    ELSE LET i == CHOOSE j \in I : TRUE
         IN  QAdd(Q(c[i].d, c[i].n), SumOfReciprocals(c, I \ {i}))

CombinedAsClaimed(r) ==
    LET c == ComponentsOf(r)
    IN  /\ IsQ(r.combined_score)
        /\ InUnit(r.combined_score)
        /\ Kept(c) = {} => r.combined_score = Zero
        /\ Kept(c) # {} =>
              QMul(r.combined_score, SumOfReciprocals(c, Kept(c))) = Q(Cardinality(Kept(c)), 1)
        /\ (\A i \in DOMAIN c : c[i] = One) => r.combined_score = One

C10_CombinedScore ==
    pc \in {"evaluate", "done"} =>
        \A name \in DOMAIN ev.results :
            ev.results[name].num_files_processed > 0 => CombinedAsClaimed(ev.results[name])

\* some components are dropped (an undefined one among them), others kept
C10_Witness ==
    /\ pc = "done"
    /\ \E name \in DOMAIN ev.results :
          LET r == ev.results[name]
              c == ComponentsOf(r)
          IN  /\ r.num_files_processed = 2
              /\ Kept(c) # {} /\ Kept(c) # DOMAIN c
              /\ \E i \in DOMAIN c : c[i] = Zero
              /\ QLess(Zero, r.combined_score) /\ QLess(r.combined_score, One)

\* every component is 1
C10_WitnessPerfect ==
    /\ pc = "done"
    /\ \E name \in DOMAIN ev.results :
          /\ ev.results[name].num_files_processed = 2
          /\ \A i \in 1..6 : ComponentsOf(ev.results[name])[i] = One
          /\ ev.results[name].combined_score = One

\* no valid frame although files were accumulated: nothing is kept
C10_WitnessNoneKept ==
    /\ pc = "done"
    /\ \E name \in DOMAIN ev.results :
          /\ ev.results[name].num_files_processed > 0
          /\ IsNaN(ev.results[name].pitch_accuracy.rpa)
          /\ Kept(ComponentsOf(ev.results[name])) = {}
          /\ ev.results[name].combined_score = Zero

-----------------------------------------------------------------------------
(* C11: the voicing metrics of a result record are frame-weighted.  For    *)
(* every algorithm that accumulated files, of whatever lengths, the        *)
(* reported precision, recall and F1 are those of the true positives,      *)
(* false positives and false negatives summed over the accumulated files,  *)
(* each file's predicted frames scored against that file's own true frames *)
(* at the same frame number, and total_frames is the sum of the files'     *)
(* frame counts.                                                           *)

\* the algorithm whose record was written last, its accumulators still held
RecordWritten ==
    /\ pc = "evaluate"
    /\ ev.stage = "next_algo"
    /\ ev.a >= 1
    /\ ev.results[ev.optimized[ev.a][1]].num_files_processed > 0

LastRecord == ev.results[ev.optimized[ev.a][1]]

\* the frames of file i are the frames of its ground truth; a frame is scored
\* where the file has a predicted value for it
FileTP(p, t) == Cardinality({i \in DOMAIN t : i \in DOMAIN p /\ p[i] /\ t[i]})
FileFP(p, t) == Cardinality({i \in DOMAIN t : i \in DOMAIN p /\ p[i] /\ ~t[i]})
FileFN(p, t) == Cardinality({i \in DOMAIN t : i \in DOMAIN p /\ ~p[i] /\ t[i]})

RECURSIVE SumOverFiles(_, _, _)
SumOverFiles(Count(_, _), preds, trues) ==
    IF preds = <<>> THEN 0
    ELSE Count(Head(preds), Head(trues)) + SumOverFiles(Count, Tail(preds), Tail(trues))

RECURSIVE SumOfLengths(_)
SumOfLengths(arrays) ==
    IF arrays = <<>> THEN 0 ELSE Len(Head(arrays)) + SumOfLengths(Tail(arrays))

PrecisionOf(tp, fp) == IF tp + fp > 0 THEN Q(tp, tp + fp) ELSE Zero
RecallOf(tp, fn) == IF tp + fn > 0 THEN Q(tp, tp + fn) ELSE Zero
F1Of(p, r) == IF QLess(Zero, QAdd(p, r)) THEN QDiv(QMul(Q(2, 1), QMul(p, r)), QAdd(p, r)) ELSE Zero

FrameWeighted(r, preds, trues) ==
    LET tp == SumOverFiles(FileTP, preds, trues)
        fp == SumOverFiles(FileFP, preds, trues)
        fn == SumOverFiles(FileFN, preds, trues)
    IN  /\ r.voicing_detection.precision = PrecisionOf(tp, fp)
        /\ r.voicing_detection.recall = RecallOf(tp, fn)
        /\ r.voicing_detection.f1 = F1Of(PrecisionOf(tp, fp), RecallOf(tp, fn))
        /\ r.total_frames = SumOfLengths(trues)

FilesAligned ==
    /\ Len(ev.acc.all_voiced_mask) = Len(ev.acc.all_pred_voicing)
    /\ \A i \in DOMAIN ev.acc.all_pred_voicing :
          /\ Len(ev.acc.all_pred_voicing[i]) = Len(ev.acc.all_true_voicing[i])
          /\ Len(ev.acc.all_pred_pitch[i]) = Len(ev.acc.all_true_pitch[i])

\* the same on the runs in which extract_pitch kept to the file's length
C11_AlignedFilesFrameWeighted ==
    (RecordWritten /\ FilesAligned) =>
        FrameWeighted(LastRecord, ev.acc.all_pred_voicing, ev.acc.all_true_voicing)

\* two aligned files of different lengths whose frame-weighted F1 is not the
\* mean of the two per-file F1 scores
C11_WitnessAligned ==
    /\ RecordWritten /\ FilesAligned
    /\ Len(ev.acc.all_pred_voicing) = 2
    /\ Len(ev.acc.all_pred_voicing[1]) # Len(ev.acc.all_pred_voicing[2])
    /\ LET f(i) == evaluate_voicing_detection(ev.acc.all_pred_voicing[i],
                                              ev.acc.all_true_voicing[i]).f1
       IN  LastRecord.voicing_detection.f1 # QDiv(QAdd(f(1), f(2)), Q(2, 1))

-----------------------------------------------------------------------------
(* C12: an algorithm for which no file produced data (empty dataset, every *)
(* file skipped, or every file failed) does not abort the run: its result  *)
(* record has NaN for every voicing, pitch-accuracy and smoothness metric  *)
(* and for the combined score, with num_files_processed = 0 and            *)
(* total_frames = 0, and the algorithms after it are still evaluated, so   *)
(* that the run returns a record for each.                                 *)

\* the file loop of the current algorithm is over and no file went through
NoFileProducedData ==
    /\ ev.a >= 1
    /\ ev.completed = 0
    /\ \/ pc = "aborted"
       \/ pc = "evaluate" /\ ev.stage = "next_algo"

C12_NoDataRecord ==
    /\ NoFileProducedData =>
          /\ pc # "aborted"
          /\ ev.optimized[ev.a][1] \in DOMAIN ev.results
          /\ ev.results[ev.optimized[ev.a][1]] = NoFilesRecord
    /\ pc = "done" =>
          \A i \in DOMAIN ev.optimized : ev.optimized[i][1] \in DOMAIN ev.results

\* the same where every failure was one of dataset access or of extract_pitch
C12_NoDataRecordUntouched ==
    (NoFileProducedData /\ ev.acc = NoAccumulation) =>
        /\ pc # "aborted"
        /\ ev.optimized[ev.a][1] \in DOMAIN ev.results
        /\ ev.results[ev.optimized[ev.a][1]] = NoFilesRecord

\* the first algorithm failed on the only file, the second one was evaluated
C12_WitnessLaterAlgorithm ==
    /\ pc = "done"
    /\ Len(ev.optimized) = 2
    /\ \E i \in DOMAIN dataset : np_any(dataset[i].periodicity)
    /\ ev.results[ev.optimized[1][1]] = NoFilesRecord
    /\ ev.results[ev.optimized[2][1]].num_files_processed = 1

-----------------------------------------------------------------------------
(* C13: a file whose ground-truth voicing is entirely false is skipped     *)
(* before the algorithm is invoked: extract_pitch is not called for it, no *)
(* accumulator and not the smoothness list changes, it adds nothing to     *)
(* num_files_processed or total_frames, and the record of the algorithm is *)
(* the record of the same dataset with that file removed.                  *)

AllFalse(sample) == ~sample.bad /\ ~np_any(sample.periodicity)

\* the files seen so far by the current algorithm, the all-false ones removed
SeenWithoutAllFalse == {j \in 1..(ev.idx - 1) : ~AllFalse(dataset[j])}

\* the accumulators after the files of J, in order, each with the output the
\* algorithm gave for it in this run
RECURSIVE Replayed(_, _)
Replayed(J, acc) ==
    IF J = {} THEN acc
    ELSE LET j == CHOOSE k \in J : \A m \in J : k <= m
         IN  Replayed(J \ {j}, file_step(acc, dataset[j], ev.outs[j]).acc)

RecordOf(acc) ==
    IF acc.all_pred_voicing = <<>> THEN NoFilesRecord ELSE aggregate(acc).record

AlgorithmRecorded == pc = "evaluate" /\ ev.stage = "next_algo" /\ ev.a >= 1

C13_AllFalseFileSkipped ==
    /\ (InFileLoop \/ AlgorithmRecorded) =>
          /\ Len(ev.outs) = ev.idx - 1
          /\ \A j \in 1..(ev.idx - 1) : AllFalse(dataset[j]) => ev.outs[j] = NotExtracted
          /\ ev.acc = Replayed(SeenWithoutAllFalse, NoAccumulation)
    /\ (InFileLoop /\ ev.idx > 1 /\ AllFalse(dataset[ev.idx - 1])) => ev.outcome = "skipped"
    /\ AlgorithmRecorded =>
          LET r == ev.results[ev.optimized[ev.a][1]]
              without == Replayed(SeenWithoutAllFalse, NoAccumulation)
          IN  /\ r = RecordOf(without)
              /\ r.num_files_processed <= Cardinality(SeenWithoutAllFalse)

\* a dataset of an all-false file and a voiced
\* one, the record written from the voiced one alone
C13_Witness ==
    /\ AlgorithmRecorded
    /\ Len(dataset) = 2
    /\ AllFalse(dataset[1]) /\ Len(dataset[1].periodicity) = 2
    /\ ev.outs[2] # NotExtracted
    /\ ev.results[ev.optimized[ev.a][1]].num_files_processed = 1
    /\ ev.results[ev.optimized[ev.a][1]].total_frames = Len(dataset[2].periodicity)

-----------------------------------------------------------------------------
(* C14: when at least one file was accumulated for an algorithm, the       *)
(* smoothness_metrics of its record holds both relative_smoothness and     *)
(* continuity_breaks, each the mean over the accumulated files of the      *)
(* file's value where that value is defined: a file whose value is NaN     *)
(* counts neither in the sum nor in the number of files, and the aggregate *)
(* is NaN when no accumulated file has a defined value.                    *)

\* the files that went through the whole try body, in order
AccumulatedFiles ==
    SelectSeq([j \in 1..Len(ev.outs) |-> j],
              LAMBDA j : file_step(NoAccumulation, dataset[j], ev.outs[j]).outcome = "accumulated")

\* the smoothness of file j under the output the algorithm gave for it
FileSmoothness(j) ==
    evaluate_pitch_smoothness(ev.outs[j].pitch, ev.outs[j].voicing, dataset[j].periodicity)

RelativeSmoothnessValues == [i \in DOMAIN AccumulatedFiles |-> FileSmoothness(AccumulatedFiles[i]).relative_smoothness]
ContinuityBreaksValues == [i \in DOMAIN AccumulatedFiles |-> FileSmoothness(AccumulatedFiles[i]).continuity_breaks]

\* the mean of the defined values, NaN when there is none
MeanOfDefined(values) ==
    LET defined == SelectSeq(values, LAMBDA x : ~IsNaN(x))
    IN  IF defined = <<>> THEN NaN
        ELSE IF \A i \in DOMAIN defined : IsQ(defined[i])
        THEN QDiv(QSum(defined), Q(Len(defined), 1))
        ELSE [k |-> "mean", of |-> defined]

C14_SmoothnessAggregation ==
    (AlgorithmRecorded /\ Len(AccumulatedFiles) >= 1) =>
        LET s == ev.results[ev.optimized[ev.a][1]].smoothness_metrics
        IN  /\ DOMAIN s = {"relative_smoothness", "continuity_breaks"}
            /\ s.relative_smoothness = MeanOfDefined(RelativeSmoothnessValues)
            /\ s.continuity_breaks = MeanOfDefined(ContinuityBreaksValues)

\* two accumulated files, continuity_breaks undefined for one and 1 for the
\* other: the aggregate is 1, not 1/2
C14_Witness ==
    /\ AlgorithmRecorded
    /\ Len(AccumulatedFiles) = 2
    /\ \E i \in 1..2 : IsNaN(ContinuityBreaksValues[i])
    /\ \E i \in 1..2 : ContinuityBreaksValues[i] = One
    /\ ev.results[ev.optimized[ev.a][1]].smoothness_metrics.continuity_breaks = One

\* no accumulated file has a defined value
C14_WitnessUndefined ==
    /\ AlgorithmRecorded
    /\ Len(AccumulatedFiles) = 2
    /\ \A i \in 1..2 : IsNaN(RelativeSmoothnessValues[i])
    /\ IsNaN(ev.results[ev.optimized[ev.a][1]].smoothness_metrics.relative_smoothness)

-----------------------------------------------------------------------------
(* Lines 450-457 on their own: the combined score of six components and of *)
(* the same six with one of them lowered.                                  *)

\* a component is a rate or an exponential of a rate, in [0,1], or NaN
ComponentValues == {NaN, Zero, Q(1, 100), One}

\* x is a lower component than y: a smaller number, or undefined
LowerComponent(x, y) ==
    \/ IsQ(x) /\ IsQ(y) /\ QLess(x, y)
    \/ IsNaN(x) /\ IsQ(y)

ScoreInit ==
    /\ call \in UNION {{[fn |-> "combined_score", components |-> c,
                        lowered |-> [c EXCEPT ![i] = x]] :
                            x \in {v \in ComponentValues : LowerComponent(v, c[i])}} :
                       c \in [1..6 -> ComponentValues], i \in 1..6}
    /\ ret = Pending
    /\ IdleProgram

CallCombinedScore ==
    /\ call.fn = "combined_score"
    /\ ret = Pending
    /\ ret' = [status |-> "ok",
               combined_score |-> combined_score_of(call.components),
               lowered_score |-> combined_score_of(call.lowered)]
    /\ UNCHANGED <<call, dataset, algorithms, pc, cal, ev>>

SpecScore == ScoreInit /\ [][CallCombinedScore]_vars

-----------------------------------------------------------------------------
(* C15: with the other five components held fixed, lowering one component  *)
(* never raises combined_score, down to exactly 0 and to an undefined      *)
(* component: an algorithm that fails completely on one axis never scores  *)
(* higher than one that is very poor on it.                                *)

ScoreReturned == call.fn = "combined_score" /\ ret # Pending

\* the component that was lowered
LoweredIndex == CHOOSE i \in 1..6 : call.lowered[i] # call.components[i]

C15_PoorComponentDominates ==
    ScoreReturned => QLeq(ret.lowered_score, ret.combined_score)

\* the same where the lowered component stays strictly positive
C15_PositiveComponentDominates ==
    (ScoreReturned /\ QLess(Zero, call.lowered[LoweredIndex])) =>
        QLeq(ret.lowered_score, ret.combined_score)

\* five components of 1: the sixth at 1/100 gives 6/105, the sixth at 0 gives 1
C15_WitnessZeroScoresHigher ==
    /\ ScoreReturned
    /\ call.components = <<Q(1, 100), One, One, One, One, One>>
    /\ call.lowered = <<Zero, One, One, One, One, One>>
    /\ ret.combined_score = Q(6, 105)
    /\ ret.lowered_score = One

====
